---- MODULE Spec2Model ----
(***************************************************************************)
(* Model of server.py: the Anthropic-Messages proxy in front of the        *)
(* `claude -p` command line.  Text is modelled as Python models it: a      *)
(* sequence of characters (one-character strings), so that strip,          *)
(* partition, slicing and joining are computed character by character.     *)
(***************************************************************************)
EXTENDS Integers, Sequences, FiniteSets, TLC

VARIABLES
    pc,             \* where the request is in messages_endpoint, or whether a pure function has been applied
    messages,       \* body["messages"]
    tools,          \* body["tools"]: [given |-> BOOLEAN, n |-> number of tool definitions]
    stream,         \* body["stream"]
    prompt,         \* outcome of format_messages_as_prompt: [err, text]
    invocations,    \* number of times the claude CLI subprocess was started
    result,         \* dict returned by call_claude_cli: [cause, is_error, result]
    content_blocks, \* content_blocks of messages_endpoint
    stop_reason,    \* stop_reason of messages_endpoint
    response,       \* what the endpoint returned: [kind, status, etype, message, content, stop_reason]
    events,         \* SSE frames the returned generator has yielded so far
    spos,           \* position of the generator (sse_stream / error_stream)
    sidx,           \* idx of the enumerate loop of sse_stream
    soff,           \* i of the range loop of sse_stream (offset in the block's text)
    reply,          \* the text handed to parse_tool_use_from_text
    extracted       \* outcome of parse_tool_use_from_text: [err, blocks]

vars == <<pc, messages, tools, stream, prompt, invocations, result, content_blocks,
          stop_reason, response, events, spos, sidx, soff, reply, extracted>>

----------------------------------------------------------------------------
(* Bounds of the model *)

\* longest message list given to the Prompt Compiler
MaxMsgs == 2
\* longest backend reply given to the extractor, in lexical pieces
MaxReplyToks == 4
\* longest backend reply given to the endpoint, in segments
MaxSegments == 3

----------------------------------------------------------------------------
(* String literals, as character sequences.  "BQ" is the backquote character, *)
(* which a TLA+ string literal cannot hold.                                  *)

s_Human == <<"H", "u", "m", "a", "n", ":", " ">>
s_Assistant == <<"A", "s", "s", "i", "s", "t", "a", "n", "t", ":", " ">>
s_nl == <<"\n">>
s_nlnl == <<"\n", "\n">>
s_tool_result_open == <<"[", "T", "o", "o", "l", " ", "r", "e", "s", "u", "l", "t", ":", " ">>
s_bracket_close == <<"]">>
s_tool_call_open == <<"[", "T", "o", "o", "l", " ", "c", "a", "l", "l", ":", " ">>
s_paren_open == <<"(">>
s_tool_call_close == <<")", "]">>
s_qmark == <<"?">>
s_None == <<"N", "o", "n", "e">>
s_fence_open == <<"BQ", "BQ", "BQ", "t", "o", "o", "l", "_", "u", "s", "e">>
s_ticks == <<"BQ", "BQ", "BQ">>
s_unknown == <<"u", "n", "k", "n", "o", "w", "n">>
s_name == <<"n", "a", "m", "e">>
s_input == <<"i", "n", "p", "u", "t">>
s_foo == <<"f", "o", "o">>
s_x == <<"x">>
s_hi == <<"h", "i">>
s_a == <<"a">>
s_r == <<"r">>
s_z == <<"z">>
s_f == <<"f">>
s_word == <<"a", "b", "c", "d", "e", "f", "g", "h", "i", "j", "k", "l", "m", "n", "o", "p", "q", "r", "s", "t">>
s_json_call == <<"{", "\"", "n", "a", "m", "e", "\"", ":", "\"", "f", "o", "o", "\"", ",", "\"", "i", "n", "p", "u", "t", "\"", ":", "{", "\"", "x", "\"", ":", "1", "}", "}">>
s_json_empty == <<"{", "}">>
s_json_array == <<"[", "1", "]">>
s_json_bad == <<"{", "\"", "n", "a", "m", "e", "\"", ":">>
s_quote == <<"\"">>
s_comma == <<",", " ">>
s_colon == <<":", " ">>
s_lbrace == <<"{">>
s_rbrace == <<"}">>
s_lbrack == <<"[">>
s_rbrack == <<"]">>
s_cli_error == <<"C", "l", "a", "u", "d", "e", " ", "C", "L", "I", " ", "e", "r", "r", "o", "r", ":", " ">>
s_invalid_json == <<"I", "n", "v", "a", "l", "i", "d", " ", "J", "S", "O", "N", " ", "f", "r", "o", "m", " ", "c", "l", "a", "u", "d", "e", " ", "C", "L", "I", ":", " ">>
s_boom == <<"b", "o", "o", "m">>
s_garbage == <<"o", "o", "p", "s">>

----------------------------------------------------------------------------
(* Python string operations *)

\* the whitespace characters of the model's texts, as str.strip() sees them
IsSpace(c) == c \in {" ", "\n"}

RECURSIVE lstrip(_)
lstrip(s) == IF s # <<>> /\ IsSpace(Head(s)) THEN lstrip(Tail(s)) ELSE s

RECURSIVE rstrip(_)
rstrip(s) == IF s # <<>> /\ IsSpace(s[Len(s)]) THEN rstrip(SubSeq(s, 1, Len(s) - 1)) ELSE s

\* str.strip()
strip(s) == rstrip(lstrip(s))

\* str.find(), 1-based; 0 when pat does not occur
find(s, pat) ==
    LET hits == {i \in 1..(Len(s) - Len(pat) + 1) : SubSeq(s, i, i + Len(pat) - 1) = pat}
    IN IF hits = {} THEN 0 ELSE CHOOSE i \in hits : \A j \in hits : i <= j

\* pat in s
contains(s, pat) == find(s, pat) # 0

\* str.partition(): split at the first occurrence of pat
partition(s, pat) ==
    LET i == find(s, pat)
    IN IF i = 0
       THEN [before |-> s, sep |-> <<>>, after |-> <<>>]
       ELSE [before |-> SubSeq(s, 1, i - 1), sep |-> pat,
             after |-> SubSeq(s, i + Len(pat), Len(s))]

\* sep.join(parts)
RECURSIVE join(_, _)
join(sep, parts) ==
    IF parts = <<>> THEN <<>>
    ELSE IF Len(parts) = 1 THEN parts[1]
    ELSE parts[1] \o sep \o join(sep, Tail(parts))

\* concatenation of a sequence of texts
Concat(parts) == join(<<>>, parts)

----------------------------------------------------------------------------
(* JSON values and the json module *)

JStr(s) == [kind |-> "string", str |-> s, num |-> 0, items |-> <<>>]
JNum(n) == [kind |-> "number", str |-> <<>>, num |-> n, items |-> <<>>]
\* items: a sequence of [key |-> text, val |-> JSON value]
JObj(items) == [kind |-> "object", str |-> <<>>, num |-> 0, items |-> items]
JArr(items) == [kind |-> "array", str |-> <<>>, num |-> 0, items |-> items]
JNull == [kind |-> "null", str |-> <<>>, num |-> 0, items |-> <<>>]
Item(k, v) == [key |-> k, val |-> v]

\* decimal form of the one-digit numbers the model uses
DigitStr(n) == <<(<<"0", "1", "2", "3", "4", "5", "6", "7", "8", "9">>)[n + 1]>>

\* json.dumps with its default separators ", " and ": "
RECURSIVE json_dumps(_)
json_dumps(v) ==
    CASE v.kind = "string" -> s_quote \o v.str \o s_quote
      [] v.kind = "number" -> DigitStr(v.num)
      [] v.kind = "null" -> <<"n", "u", "l", "l">>
      [] v.kind = "object" ->
            s_lbrace
            \o join(s_comma, [i \in 1..Len(v.items) |->
                     s_quote \o v.items[i].key \o s_quote \o s_colon \o json_dumps(v.items[i].val)])
            \o s_rbrace
      [] v.kind = "array" ->
            s_lbrack
            \o join(s_comma, [i \in 1..Len(v.items) |-> json_dumps(v.items[i].val)])
            \o s_rbrack

\* the tool call {"name": "foo", "input": {"x": 1}}
ToolCallValue == JObj(<<Item(s_name, JStr(s_foo)), Item(s_input, JObj(<<Item(s_x, JNum(1))>>))>>)

\* json.loads on the payload texts of the model: the three JSON documents the
\* model's replies can hold parse to their values, every other text the model
\* can build (empty, plain words, a truncated object, two documents in a row)
\* raises json.JSONDecodeError
json_loads(s) ==
    CASE s = s_json_call -> [ok |-> TRUE, val |-> ToolCallValue]
      [] s = s_json_empty -> [ok |-> TRUE, val |-> JObj(<<>>)]
      [] s = s_json_array -> [ok |-> TRUE, val |-> JArr(<<Item(<<>>, JNum(1))>>)]
      [] OTHER -> [ok |-> FALSE, val |-> JNull]

HasKey(obj, k) == \E i \in 1..Len(obj.items) : obj.items[i].key = k

\* dict.get(k, default)
dict_get(obj, k, default) ==
    IF HasKey(obj, k)
    THEN obj.items[CHOOSE i \in 1..Len(obj.items) : obj.items[i].key = k].val
    ELSE default

----------------------------------------------------------------------------
(* Request messages *)

\* a content block of a request message; a block that is no JSON object
\* (isdict = FALSE) carries only repr, its str() form
Block(isdict, type, has_text, text, has_content, content, has_name, name, has_input, input, repr) ==
    [isdict |-> isdict, type |-> type, has_text |-> has_text, text |-> text,
     has_content |-> has_content, content |-> content, has_name |-> has_name,
     name |-> name, has_input |-> has_input, input |-> input, repr |-> repr]

TextBlockIn(t) == Block(TRUE, "text", TRUE, t, FALSE, JNull, FALSE, <<>>, FALSE, JNull, <<>>)
TextBlockNoText == Block(TRUE, "text", FALSE, <<>>, FALSE, JNull, FALSE, <<>>, FALSE, JNull, <<>>)
ToolResultIn(c) == Block(TRUE, "tool_result", FALSE, <<>>, TRUE, c, FALSE, <<>>, FALSE, JNull, <<>>)
ToolResultBare == Block(TRUE, "tool_result", FALSE, <<>>, FALSE, JNull, FALSE, <<>>, FALSE, JNull, <<>>)
ToolUseIn(n, i) == Block(TRUE, "tool_use", FALSE, <<>>, FALSE, JNull, TRUE, n, TRUE, i, <<>>)
ToolUseBare == Block(TRUE, "tool_use", FALSE, <<>>, FALSE, JNull, FALSE, <<>>, FALSE, JNull, <<>>)
ImageBlockIn == Block(TRUE, "image", FALSE, <<>>, FALSE, JNull, FALSE, <<>>, FALSE, JNull, <<>>)
NonDictBlock(r) == Block(FALSE, "", FALSE, <<>>, FALSE, JNull, FALSE, <<>>, FALSE, JNull, r)

\* content of a message: a string, a list of blocks, or null
StrContent(t) == [kind |-> "str", text |-> t, blocks |-> <<>>]
ListContent(bs) == [kind |-> "list", text |-> <<>>, blocks |-> bs]
NullContent == [kind |-> "none", text |-> <<>>, blocks |-> <<>>]

Msg(role, content) == [role |-> role, has_content |-> TRUE, content |-> content]
MsgNoContent(role) == [role |-> role, has_content |-> FALSE, content |-> NullContent]

----------------------------------------------------------------------------
(* format_messages_as_prompt *)

Ok(t) == [err |-> "", text |-> t]
Raised(e) == [err |-> e, text |-> <<>>]

\* the generator of the single-user branch: block["text"] of every dict block
\* of type text; a text block without "text" raises KeyError
RECURSIVE single_user_parts(_)
single_user_parts(blocks) ==
    IF blocks = <<>> THEN [err |-> "", parts |-> <<>>]
    ELSE LET b == Head(blocks)
             rest == single_user_parts(Tail(blocks))
         IN IF b.isdict /\ b.type = "text"
            THEN IF ~b.has_text THEN [err |-> "KeyError", parts |-> <<>>]
                 ELSE IF rest.err # "" THEN rest
                 ELSE [err |-> "", parts |-> <<b.text>> \o rest.parts]
            ELSE rest

\* str(content) of a content that is neither a string nor a list
str_of(content) == IF content.kind = "none" THEN s_None ELSE content.text

\* the single-user branch
single_user_prompt(msg) ==
    IF ~msg.has_content THEN Raised("KeyError")
    ELSE LET content == msg.content
         IN CASE content.kind = "str" -> Ok(content.text)
              [] content.kind = "list" ->
                    LET g == single_user_parts(content.blocks)
                    IN IF g.err # "" THEN Raised(g.err) ELSE Ok(join(s_nl, g.parts))
              [] OTHER -> Ok(str_of(content))

\* what one block appends to text_parts in the transcript branch
block_parts(b) ==
    IF b.isdict
    THEN CASE b.type = "text" ->
                IF b.has_text THEN [err |-> "", parts |-> <<b.text>>]
                ELSE [err |-> "KeyError", parts |-> <<>>]
           [] b.type = "tool_result" ->
                [err |-> "", parts |-> <<s_tool_result_open
                     \o json_dumps(IF b.has_content THEN b.content ELSE JStr(<<>>))
                     \o s_bracket_close>>]
           [] b.type = "tool_use" ->
                [err |-> "", parts |-> <<s_tool_call_open
                     \o (IF b.has_name THEN b.name ELSE s_qmark)
                     \o s_paren_open
                     \o json_dumps(IF b.has_input THEN b.input ELSE JObj(<<>>))
                     \o s_tool_call_close>>]
           [] OTHER -> [err |-> "", parts |-> <<>>]
    ELSE [err |-> "", parts |-> <<b.repr>>]

\* the text_parts loop over the blocks of one message
RECURSIVE text_parts(_)
text_parts(blocks) ==
    IF blocks = <<>> THEN [err |-> "", parts |-> <<>>]
    ELSE LET first == block_parts(Head(blocks))
         IN IF first.err # "" THEN first
            ELSE LET rest == text_parts(Tail(blocks))
                 IN IF rest.err # "" THEN rest
                    ELSE [err |-> "", parts |-> first.parts \o rest.parts]

\* the two transcript labels: the entry a message of this role appends to parts
role_entry(role, content) ==
    CASE role = "user" -> <<s_Human \o content>>
      [] role = "assistant" -> <<s_Assistant \o content>>
      [] OTHER -> <<>>

\* one turn of the transcript loop
message_parts(msg) ==
    IF ~msg.has_content THEN [err |-> "KeyError", parts |-> <<>>]
    ELSE IF msg.content.kind = "list"
    THEN LET t == text_parts(msg.content.blocks)
         IN IF t.err # "" THEN t
            ELSE [err |-> "", parts |-> role_entry(msg.role, join(s_nl, t.parts))]
    ELSE [err |-> "", parts |-> role_entry(msg.role, str_of(msg.content))]

RECURSIVE transcript_parts(_)
transcript_parts(msgs) ==
    IF msgs = <<>> THEN [err |-> "", parts |-> <<>>]
    ELSE LET first == message_parts(Head(msgs))
         IN IF first.err # "" THEN first
            ELSE LET rest == transcript_parts(Tail(msgs))
                 IN IF rest.err # "" THEN rest
                    ELSE [err |-> "", parts |-> first.parts \o rest.parts]

\* the separator between the turns of the transcript
transcript_sep == s_nlnl

\* the test that selects the single-user branch
is_single_user(msgs) == Len(msgs) = 1 /\ msgs[1].role = "user"

format_messages_as_prompt(msgs) ==
    IF msgs = <<>> THEN Ok(<<>>)
    ELSE IF is_single_user(msgs) THEN single_user_prompt(msgs[1])
    ELSE LET t == transcript_parts(msgs)
         IN IF t.err # "" THEN Raised(t.err) ELSE Ok(join(transcript_sep, t.parts))

----------------------------------------------------------------------------
(* parse_tool_use_from_text *)

\* a content block of the response.  id stands for the uuid4 suffix of
\* "toolu_...": the k-th ToolUse block of a response gets the fresh value k
TextBlock(t) == [type |-> "text", text |-> t, id |-> 0, name |-> JNull, input |-> JNull]
ToolUseBlock(id, name, input) ==
    [type |-> "tool_use", text |-> <<>>, id |-> id, name |-> name, input |-> input]

NumToolUse(blocks) == Cardinality({i \in 1..Len(blocks) : blocks[i].type = "tool_use"})

\* the text block the except branch appends for a payload that is not JSON
raw_fence_text(json_str) == s_fence_open \o s_nl \o json_str \o s_nl \o s_ticks

\* the block appended for the parsed payload; tool_data.get of a value that is
\* no dict raises AttributeError, which the except clause does not catch
tool_use_of(tool_data, blocks) ==
    IF tool_data.kind # "object"
    THEN [err |-> "AttributeError", block |-> TextBlock(<<>>)]
    ELSE [err |-> "",
          block |-> ToolUseBlock(NumToolUse(blocks) + 1,
                                 dict_get(tool_data, s_name, JStr(s_unknown)),
                                 dict_get(tool_data, s_input, JObj(<<>>)))]

\* the while loop: [err, blocks, remaining] when it ends
RECURSIVE parse_loop(_, _)
parse_loop(blocks, remaining) ==
    IF ~contains(remaining, s_fence_open)
    THEN [err |-> "", blocks |-> blocks, remaining |-> remaining]
    ELSE LET p == partition(remaining, s_fence_open)
             before_text == strip(p.before)
             blocks1 == IF before_text # <<>> THEN Append(blocks, TextBlock(before_text))
                        ELSE blocks
             q == partition(p.after, s_ticks)
             json_str == strip(q.before)
             loaded == json_loads(json_str)
         IN IF ~loaded.ok
            THEN parse_loop(Append(blocks1, TextBlock(raw_fence_text(json_str))), q.after)
            ELSE LET t == tool_use_of(loaded.val, blocks1)
                 IN IF t.err # ""
                    THEN [err |-> t.err, blocks |-> <<>>, remaining |-> <<>>]
                    ELSE parse_loop(Append(blocks1, t.block), q.after)

parse_tool_use_from_text(text) ==
    LET r == parse_loop(<<>>, text)
        remaining_text == strip(r.remaining)
        b1 == IF remaining_text # <<>> THEN Append(r.blocks, TextBlock(remaining_text))
              ELSE r.blocks
        b2 == IF b1 = <<>> THEN <<TextBlock(text)>> ELSE b1
    IN IF r.err # "" THEN [err |-> r.err, blocks |-> <<>>]
       ELSE [err |-> "", blocks |-> b2]

----------------------------------------------------------------------------
(* Inputs *)

Roles == {"user", "assistant", "system"}

\* the message contents the Prompt Compiler is given
Contents ==
    { StrContent(s_hi),
      NullContent,
      ListContent(<<>>),
      ListContent(<<TextBlockIn(s_a)>>),
      ListContent(<<TextBlockIn(s_a), ToolResultIn(JStr(s_r))>>),
      ListContent(<<ToolUseIn(s_f, JObj(<<Item(s_x, JNum(1))>>)), NonDictBlock(s_z)>>),
      ListContent(<<ToolResultBare, ToolUseBare>>),
      ListContent(<<ImageBlockIn, TextBlockIn(s_hi)>>),
      ListContent(<<TextBlockNoText>>) }

Messages == {Msg(r, c) : r \in Roles, c \in Contents} \cup {MsgNoContent(r) : r \in Roles}

\* all sequences over S of length at most n
SeqsUpTo(S, n) == UNION {[1..k -> S] : k \in 0..n}

MessageLists == SeqsUpTo(Messages, MaxMsgs)

\* the lexical pieces replies are built from
ReplyPieces ==
    { s_fence_open, s_ticks, s_nl, s_a, s_json_call, s_json_empty, s_json_array, s_json_bad }

Replies == {Concat(ps) : ps \in SeqsUpTo(ReplyPieces, MaxReplyToks)}

----------------------------------------------------------------------------
(* The pure functions, applied to their inputs *)

Idle ==
    /\ tools = [given |-> FALSE, n |-> 0]
    /\ stream = FALSE
    /\ invocations = 0
    /\ result = [cause |-> "none", is_error |-> FALSE, result |-> <<>>]
    /\ content_blocks = <<>>
    /\ stop_reason = ""
    /\ response = [kind |-> "none", status |-> 0, etype |-> "", message |-> <<>>,
                   content |-> <<>>, stop_reason |-> ""]
    /\ events = <<>>
    /\ spos = "none"
    /\ sidx = 0
    /\ soff = 0

InitPrompt ==
    /\ pc = "prompt_in"
    /\ messages \in MessageLists
    /\ prompt = Ok(<<>>)
    /\ reply = <<>>
    /\ extracted = [err |-> "", blocks |-> <<>>]
    /\ Idle

Compile ==
    /\ pc = "prompt_in"
    /\ prompt' = format_messages_as_prompt(messages)
    /\ pc' = "compiled"
    /\ UNCHANGED <<messages, tools, stream, invocations, result, content_blocks, stop_reason,
                   response, events, spos, sidx, soff, reply, extracted>>

NextPrompt == Compile

SpecPrompt == InitPrompt /\ [][NextPrompt]_vars

InitParse ==
    /\ pc = "reply_in"
    /\ reply \in Replies
    /\ extracted = [err |-> "", blocks |-> <<>>]
    /\ messages = <<>>
    /\ prompt = Ok(<<>>)
    /\ Idle

Extract ==
    /\ pc = "reply_in"
    /\ extracted' = parse_tool_use_from_text(reply)
    /\ pc' = "extracted"
    /\ UNCHANGED <<messages, tools, stream, prompt, invocations, result, content_blocks,
                   stop_reason, response, events, spos, sidx, soff, reply>>

NextParse == Extract

SpecParse == InitParse /\ [][NextParse]_vars

----------------------------------------------------------------------------
(* call_claude_cli *)

\* how the subprocess ended: its return code, its stderr, and its stdout, which
\* is either a JSON document {"result": text, "is_error": ...} or something else
Proc(returncode, stderr, stdout_json, is_error, text) ==
    [returncode |-> returncode, stderr |-> stderr, stdout_json |-> stdout_json,
     is_error |-> is_error, text |-> text]

\* faulty variant of call_claude_cli: stdout that is no JSON is passed on as
\* the reply text instead of being flagged as an error
call_claude_cli_lenient(proc) ==
    IF proc.returncode # 0
    THEN [cause |-> "exit", is_error |-> TRUE, result |-> s_cli_error \o proc.stderr]
    ELSE IF ~proc.stdout_json
    THEN [cause |-> "bad_json", is_error |-> FALSE, result |-> proc.text]
    ELSE [cause |-> "stdout", is_error |-> proc.is_error, result |-> proc.text]

\* the dict call_claude_cli returns; cause records which branch built it
call_claude_cli(proc) ==
    IF proc.returncode # 0
    THEN [cause |-> "exit", is_error |-> TRUE, result |-> s_cli_error \o proc.stderr]
    ELSE IF ~proc.stdout_json
    THEN [cause |-> "bad_json", is_error |-> TRUE, result |-> s_invalid_json \o proc.text]
    ELSE [cause |-> "stdout", is_error |-> proc.is_error, result |-> proc.text]

----------------------------------------------------------------------------
(* messages_endpoint *)

\* faulty variant of has_tools: `tools is not None`, true of an empty list
has_tools_not_none(t) == t.given

\* has_tools = tools and len(tools) > 0
has_tools(t) == t.given /\ t.n > 0

\* content_blocks of the endpoint: [err, blocks]
endpoint_blocks(t, response_text) ==
    IF has_tools(t) THEN parse_tool_use_from_text(response_text)
    ELSE [err |-> "", blocks |-> <<TextBlock(response_text)>>]

has_tool_use(blocks) == \E i \in 1..Len(blocks) : blocks[i].type = "tool_use"

\* faulty variant of compute_stop_reason: looks at the first block only
compute_stop_reason_first(blocks) ==
    IF blocks # <<>> /\ blocks[1].type = "tool_use" THEN "tool_use" ELSE "end_turn"

compute_stop_reason(blocks) == IF has_tool_use(blocks) THEN "tool_use" ELSE "end_turn"

\* what the endpoint returns: the kind of response, its status code, for an
\* error envelope its error.type and error.message, for a message its content
\* and stop_reason
Response(kind, status, etype, message, content, reason) ==
    [kind |-> kind, status |-> status, etype |-> etype, message |-> message,
     content |-> content, stop_reason |-> reason]

\* JSONResponse(status_code=500, content=error_body)
ErrorResponse(message) ==
    Response("error", 500, "api_error", message, <<>>, "")

\* StreamingResponse(...): the body is the generator, whose frames go to events
StreamResponse == Response("sse", 200, "", <<>>, <<>>, "")

\* JSONResponse(content=response)
MessageResponse(blocks, reason) ==
    Response("message", 200, "", <<>>, blocks, reason)

\* the framework's answer to an exception the handler does not catch
CrashResponse == Response("unhandled", 500, "", <<>>, <<>>, "")

----------------------------------------------------------------------------
(* Inputs of the endpoint *)

EndpointMessageLists ==
    { <<Msg("user", StrContent(s_hi))>>,
      <<Msg("user", StrContent(s_hi)), Msg("assistant", ListContent(<<TextBlockNoText>>))>> }

ToolSettings ==
    { [given |-> FALSE, n |-> 0], [given |-> TRUE, n |-> 0], [given |-> TRUE, n |-> 1] }

\* a whole fence around a payload
Fence(payload) == s_fence_open \o s_nl \o payload \o s_nl \o s_ticks

\* the segments the endpoint's replies are built from
Segments ==
    { s_word, s_a, s_nl, s_fence_open,
      Fence(s_json_call), Fence(s_json_empty), Fence(s_json_bad), Fence(s_json_array) }

EndpointReplies == {Concat(ps) : ps \in SeqsUpTo(Segments, MaxSegments)}

ProcOutcomes ==
    { Proc(1, s_boom, FALSE, FALSE, <<>>),
      Proc(0, <<>>, FALSE, FALSE, s_garbage),
      Proc(0, <<>>, TRUE, TRUE, s_boom) }
    \cup {Proc(0, <<>>, TRUE, FALSE, r) : r \in EndpointReplies}

----------------------------------------------------------------------------
(* The request *)

Init ==
    /\ pc = "idle"
    /\ messages = <<>>
    /\ prompt = Ok(<<>>)
    /\ reply = <<>>
    /\ extracted = [err |-> "", blocks |-> <<>>]
    /\ Idle

\* messages_endpoint up to the await of call_claude_cli: read the body, compile
\* the prompt, start the subprocess.  An exception of the compiler leaves the
\* handler before the subprocess is started.
Receive ==
    /\ pc = "idle"
    /\ \E m \in EndpointMessageLists, t \in ToolSettings, s \in BOOLEAN :
        LET p == format_messages_as_prompt(m)
        IN /\ messages' = m
           /\ tools' = t
           /\ stream' = s
           /\ prompt' = p
           /\ IF p.err # ""
              THEN /\ pc' = "crashed"
                   /\ response' = CrashResponse
                   /\ invocations' = invocations
              ELSE /\ pc' = "await_cli"
                   /\ response' = response
                   /\ invocations' = invocations + 1
    /\ UNCHANGED <<result, content_blocks, stop_reason, events, spos, sidx, soff, reply,
                   extracted>>

\* the rest of messages_endpoint, run when the subprocess has ended
CliReturns ==
    /\ pc = "await_cli"
    /\ \E proc \in ProcOutcomes :
        LET res == call_claude_cli(proc)
            cb == endpoint_blocks(tools, res.result)
        IN /\ result' = res
           /\ IF res.is_error
              THEN /\ content_blocks' = content_blocks
                   /\ stop_reason' = stop_reason
                   /\ reply' = reply
                   /\ IF stream
                      THEN /\ response' = StreamResponse
                           /\ pc' = "streaming"
                           /\ spos' = "error_begin"
                      ELSE /\ response' = ErrorResponse(res.result)
                           /\ pc' = "responded"
                           /\ spos' = spos
              ELSE /\ reply' = res.result
                   /\ IF cb.err # ""
                      THEN /\ content_blocks' = content_blocks
                           /\ stop_reason' = stop_reason
                           /\ response' = CrashResponse
                           /\ pc' = "crashed"
                           /\ spos' = spos
                      ELSE /\ content_blocks' = cb.blocks
                           /\ stop_reason' = compute_stop_reason(cb.blocks)
                           /\ IF stream
                              THEN /\ response' = StreamResponse
                                   /\ pc' = "streaming"
                                   /\ spos' = "begin"
                              ELSE /\ response' = MessageResponse(cb.blocks,
                                                       compute_stop_reason(cb.blocks))
                                   /\ pc' = "responded"
                                   /\ spos' = spos
    /\ UNCHANGED <<messages, tools, stream, prompt, invocations, events, sidx, soff, extracted>>

----------------------------------------------------------------------------
(* error_stream and sse_stream: one action per yield *)

Event(name, index, kind, text, reason) ==
    [event |-> name, index |-> index, kind |-> kind, text |-> text, stop_reason |-> reason]

\* the single frame of error_stream
EmitError ==
    /\ pc = "streaming" /\ spos = "error_begin"
    /\ events' = Append(events, Event("error", -1, "api_error", result.result, ""))
    /\ spos' = "closed"
    /\ UNCHANGED <<pc, messages, tools, stream, prompt, invocations, result, content_blocks,
                   stop_reason, response, sidx, soff, reply, extracted>>

\* 1. message_start
EmitMessageStart ==
    /\ pc = "streaming" /\ spos = "begin"
    /\ events' = Append(events, Event("message_start", -1, "", <<>>, ""))
    /\ spos' = "blocks"
    /\ sidx' = 0
    /\ UNCHANGED <<pc, messages, tools, stream, prompt, invocations, result, content_blocks,
                   stop_reason, response, soff, reply, extracted>>

\* 2. content_block_start of the block at idx
EmitBlockStart ==
    /\ pc = "streaming" /\ spos = "blocks"
    /\ sidx < Len(content_blocks)
    /\ LET block == content_blocks[sidx + 1]
       IN /\ events' = Append(events, Event("content_block_start", sidx, block.type, <<>>, ""))
          /\ spos' = IF block.type = "text" THEN "in_text" ELSE "in_tool"
    /\ soff' = 0
    /\ UNCHANGED <<pc, messages, tools, stream, prompt, invocations, result, content_blocks,
                   stop_reason, response, sidx, reply, extracted>>

chunk_size == 20

\* faulty variant of text_chunk: text[i:i + chunk_size - 1], one character short
text_chunk_short(text, i) ==
    SubSeq(text, i + 1, IF i + chunk_size - 1 < Len(text) THEN i + chunk_size - 1 ELSE Len(text))

\* text[i:i + chunk_size]
text_chunk(text, i) ==
    SubSeq(text, i + 1, IF i + chunk_size < Len(text) THEN i + chunk_size ELSE Len(text))

\* one text_delta of the range loop
EmitTextDelta ==
    /\ pc = "streaming" /\ spos = "in_text"
    /\ soff < Len(content_blocks[sidx + 1].text)
    /\ events' = Append(events, Event("content_block_delta", sidx, "text_delta",
                                      text_chunk(content_blocks[sidx + 1].text, soff), ""))
    /\ soff' = soff + chunk_size
    /\ UNCHANGED <<pc, messages, tools, stream, prompt, invocations, result, content_blocks,
                   stop_reason, response, spos, sidx, reply, extracted>>

\* the input_json_delta of a tool_use block
EmitToolDelta ==
    /\ pc = "streaming" /\ spos = "in_tool"
    /\ events' = Append(events, Event("content_block_delta", sidx, "input_json_delta",
                                      json_dumps(content_blocks[sidx + 1].input), ""))
    /\ spos' = "tool_sent"
    /\ UNCHANGED <<pc, messages, tools, stream, prompt, invocations, result, content_blocks,
                   stop_reason, response, sidx, soff, reply, extracted>>

\* faulty variant of EmitBlockStop: the tool_use branch yields no
\* content_block_stop and the loop moves on
EmitBlockStop_text_only ==
    /\ pc = "streaming"
    /\ \/ /\ spos = "in_text" /\ soff >= Len(content_blocks[sidx + 1].text)
          /\ events' = Append(events, Event("content_block_stop", sidx, "", <<>>, ""))
       \/ /\ spos = "tool_sent"
          /\ events' = events
    /\ spos' = "blocks"
    /\ sidx' = sidx + 1
    /\ UNCHANGED <<pc, messages, tools, stream, prompt, invocations, result, content_blocks,
                   stop_reason, response, soff, reply, extracted>>

\* content_block_stop, after the last chunk of a text block or after the delta
\* of a tool_use block; the enumerate loop moves on
EmitBlockStop ==
    /\ pc = "streaming"
    /\ \/ spos = "in_text" /\ soff >= Len(content_blocks[sidx + 1].text)
       \/ spos = "tool_sent"
    /\ events' = Append(events, Event("content_block_stop", sidx, "", <<>>, ""))
    /\ spos' = "blocks"
    /\ sidx' = sidx + 1
    /\ UNCHANGED <<pc, messages, tools, stream, prompt, invocations, result, content_blocks,
                   stop_reason, response, soff, reply, extracted>>

\* 3. message_delta, once the enumerate loop is exhausted
EmitMessageDelta ==
    /\ pc = "streaming" /\ spos = "blocks"
    /\ sidx >= Len(content_blocks)
    /\ events' = Append(events, Event("message_delta", -1, "", <<>>, stop_reason))
    /\ spos' = "end"
    /\ UNCHANGED <<pc, messages, tools, stream, prompt, invocations, result, content_blocks,
                   stop_reason, response, sidx, soff, reply, extracted>>

\* 4. message_stop; the generator returns
EmitMessageStop ==
    /\ pc = "streaming" /\ spos = "end"
    /\ events' = Append(events, Event("message_stop", -1, "", <<>>, ""))
    /\ spos' = "closed"
    /\ UNCHANGED <<pc, messages, tools, stream, prompt, invocations, result, content_blocks,
                   stop_reason, response, sidx, soff, reply, extracted>>

Next ==
    \/ Receive
    \/ CliReturns
    \/ EmitError
    \/ EmitMessageStart
    \/ EmitBlockStart
    \/ EmitTextDelta
    \/ EmitToolDelta
    \/ EmitBlockStop
    \/ EmitMessageDelta
    \/ EmitMessageStop

Spec == Init /\ [][Next]_vars

----------------------------------------------------------------------------
(* Properties of the endpoint (specification Spec) *)

ContainsToolUse(blocks) == \E i \in 1..Len(blocks) : blocks[i].type = "tool_use"

ReasonMatches(reason, blocks) ==
    /\ reason \in {"tool_use", "end_turn"}
    /\ reason = "tool_use" <=> ContainsToolUse(blocks)

\* C2: the stop_reason of the assembled response, and of every streamed
\* message_delta, is tool_use if and only if the assembled content holds at
\* least one ToolUse block, and end_turn otherwise.
C2_StopReasonIffToolUse ==
    /\ response.kind = "message" => ReasonMatches(response.stop_reason, response.content)
    /\ \A j \in 1..Len(events) :
          events[j].event = "message_delta" =>
              ReasonMatches(events[j].stop_reason, content_blocks)

\* a streamed message_delta says tool_use for a content that holds a Text block
\* followed by a ToolUse block
C2_Witness ==
    /\ Len(content_blocks) >= 2
    /\ content_blocks[1].type = "text"
    /\ ContainsToolUse(content_blocks)
    /\ \E j \in 1..Len(events) :
          events[j].event = "message_delta" /\ events[j].stop_reason = "tool_use"

NoToolsOffered == ~tools.given \/ tools.n = 0

\* C9: when the request offers no tools (absent, or an empty list) extraction is
\* skipped: the content is exactly one Text block holding the reply unchanged,
\* there is no ToolUse block, stop_reason is end_turn, and the reply never makes
\* the request fail.
C9_NoToolsNoExtraction ==
    NoToolsOffered =>
        /\ (pc = "crashed" => prompt.err # "")
        /\ (response.kind \in {"message", "sse"} /\ ~result.is_error) =>
              /\ content_blocks = <<TextBlock(result.result)>>
              /\ ~ContainsToolUse(content_blocks)
              /\ stop_reason = "end_turn"
              /\ response.kind = "message" =>
                    /\ response.content = <<TextBlock(result.result)>>
                    /\ response.stop_reason = "end_turn"

\* an empty tools list, a reply that holds a well-formed tool_use fence, and the
\* response returned
C9_Witness ==
    /\ tools.given /\ tools.n = 0
    /\ response.kind = "message"
    /\ contains(result.result, Fence(s_json_call))

BackendFailed == result.cause \in {"exit", "bad_json"}

DeltasOf(idx) ==
    SelectSeq(events, LAMBDA e : e.event = "content_block_delta" /\ e.index = idx)

StoppedBlock(idx) ==
    \E j \in 1..Len(events) : events[j].event = "content_block_stop" /\ events[j].index = idx

CeilDiv(n, d) == (n + d - 1) \div d

\* C3: for every Text block whose content_block_stop has been emitted, the
\* texts of the deltas of its index, concatenated in emission order, are the
\* block's text, and there are ceil(len(text)/chunk_size) of them (none for an
\* empty text); no text delta ever carries an empty string.
C3_ChunksRoundTrip ==
    (response.kind = "sse" /\ ~result.is_error) =>
        /\ \A i \in 1..Len(content_blocks) :
              (content_blocks[i].type = "text" /\ StoppedBlock(i - 1)) =>
                  LET ds == DeltasOf(i - 1)
                  IN /\ Concat([k \in 1..Len(ds) |-> ds[k].text]) = content_blocks[i].text
                     /\ Len(ds) = CeilDiv(Len(content_blocks[i].text), chunk_size)
                     /\ \A k \in 1..Len(ds) : ds[k].kind = "text_delta"
        /\ \A j \in 1..Len(events) :
              (events[j].event = "content_block_delta" /\ events[j].kind = "text_delta") =>
                  events[j].text # <<>>

\* a Text block of 41 characters has been streamed in three deltas
C3_Witness ==
    /\ response.kind = "sse"
    /\ content_blocks # <<>>
    /\ content_blocks[1].type = "text"
    /\ Len(content_blocks[1].text) = 2 * chunk_size + 1
    /\ StoppedBlock(0)
    /\ Len(DeltasOf(0)) = 3

IsBlockStart(e, i, blocks) ==
    e.event = "content_block_start" /\ e.index = i /\ e.kind = blocks[i + 1].type
IsTextDelta(e, i) ==
    e.event = "content_block_delta" /\ e.index = i /\ e.kind = "text_delta"
IsToolDelta(e, i, blocks) ==
    /\ e.event = "content_block_delta" /\ e.index = i /\ e.kind = "input_json_delta"
    /\ e.text = json_dumps(blocks[i + 1].input)
IsBlockStop(e, i) == e.event = "content_block_stop" /\ e.index = i

\* the events that may come directly after prev in the stream of blocks
MayFollow(prev, e, blocks) ==
    CASE prev.event = "message_start" ->
            IF Len(blocks) > 0 THEN IsBlockStart(e, 0, blocks) ELSE e.event = "message_delta"
      [] prev.event = "content_block_start" ->
            IF blocks[prev.index + 1].type = "tool_use"
            THEN IsToolDelta(e, prev.index, blocks)
            ELSE IsTextDelta(e, prev.index) \/ IsBlockStop(e, prev.index)
      [] prev.event = "content_block_delta" ->
            IF prev.kind = "input_json_delta"
            THEN IsBlockStop(e, prev.index)
            ELSE IsTextDelta(e, prev.index) \/ IsBlockStop(e, prev.index)
      [] prev.event = "content_block_stop" ->
            IF prev.index + 1 < Len(blocks)
            THEN IsBlockStart(e, prev.index + 1, blocks)
            ELSE e.event = "message_delta"
      [] prev.event = "message_delta" -> e.event = "message_stop"
      [] OTHER -> FALSE

\* C1: the events of a successful streaming request are one message_start,
\* then for each block index in increasing order its content_block_start, its
\* deltas (for a ToolUse block exactly one, carrying the whole serialized
\* input) and its content_block_stop, with no event of another index in
\* between, then one message_delta, then one message_stop, after which nothing
\* is emitted.
C1_StreamOrder ==
    (response.kind = "sse" /\ ~result.is_error) =>
        /\ events # <<>> => events[1].event = "message_start"
        /\ \A j \in 2..Len(events) : MayFollow(events[j - 1], events[j], content_blocks)
        /\ spos = "closed" => (events # <<>> /\ events[Len(events)].event = "message_stop")

\* the stream of a Text, ToolUse, Text content has ended
C1_Witness ==
    /\ response.kind = "sse"
    /\ spos = "closed"
    /\ Len(content_blocks) = 3
    /\ content_blocks[1].type = "text"
    /\ content_blocks[2].type = "tool_use"
    /\ content_blocks[3].type = "text"
    /\ Len(events) >= 12

----------------------------------------------------------------------------
(* Properties of the Prompt Compiler (specification SpecPrompt) *)

\* a content block of the data model: Text{text}, ToolUse{name, input},
\* ToolResult{content}
WellFormedBlock(b) ==
    /\ b.isdict
    /\ \/ b.type = "text" /\ b.has_text
       \/ b.type = "tool_use" /\ b.has_name /\ b.has_input
       \/ b.type = "tool_result" /\ b.has_content

\* a Message of the data model: its content is a text or a list of such blocks
WellFormedMsg(m) ==
    /\ m.has_content
    /\ \/ m.content.kind = "str"
       \/ /\ m.content.kind = "list"
          /\ \A i \in 1..Len(m.content.blocks) : WellFormedBlock(m.content.blocks[i])

SingleUser(msgs) == Len(msgs) = 1 /\ msgs[1].role = "user"

\* the Content Normalizer's rendering of one block
NormalBlock(b) ==
    CASE b.isdict /\ b.type = "text" -> b.text
      [] b.isdict /\ b.type = "tool_result" ->
            s_tool_result_open \o json_dumps(b.content) \o s_bracket_close
      [] b.isdict /\ b.type = "tool_use" ->
            s_tool_call_open \o b.name \o s_paren_open \o json_dumps(b.input)
            \o s_tool_call_close
      [] OTHER -> b.repr

\* the Content Normalizer: a text unchanged, a list as its blocks' renderings
\* joined by newlines
Normalized(content) ==
    IF content.kind = "str" THEN content.text
    ELSE join(s_nl, [i \in 1..Len(content.blocks) |-> NormalBlock(content.blocks[i])])

Rendered(msgs) == SelectSeq(msgs, LAMBDA m : m.role \in {"user", "assistant"})

Label(role) == IF role = "user" THEN s_Human ELSE s_Assistant

TranscriptOf(msgs) ==
    LET shown == Rendered(msgs)
    IN join(s_nlnl, [i \in 1..Len(shown) |->
                        Label(shown[i].role) \o Normalized(shown[i].content)])

\* C7: in transcript mode (every message list other than a single user
\* message) compilation yields a prompt that is one entry per user or assistant
\* message, 'Human: ' or 'Assistant: ' followed by the normalized content, in
\* input order, with a blank line between entries; messages of another role
\* contribute nothing and the empty list compiles to the empty text.
C7_Transcript ==
    (pc = "compiled" /\ ~SingleUser(messages)) =>
        /\ prompt.err = ""
        /\ (\A i \in 1..Len(messages) : WellFormedMsg(messages[i])) =>
              prompt.text = TranscriptOf(messages)
        /\ messages = <<>> => prompt.text = <<>>

\* what remains of C7 on the messages of the data model (content a text or a
\* list of Text, ToolUse and ToolResult blocks with their fields): used to see
\* that C7 fails on the KeyError alone
TranscriptOfDataModelMessages ==
    (pc = "compiled" /\ ~SingleUser(messages)
       /\ \A i \in 1..Len(messages) : WellFormedMsg(messages[i])) =>
        /\ prompt.err = ""
        /\ prompt.text = TranscriptOf(messages)

\* C6: the prompt of a single user message is that message's normalized
\* content with no role prefix, list content being normalized by the Content
\* Normalizer's rules for every block kind (text verbatim, tool_result as
\* '[Tool result: ...]', tool_use as '[Tool call: name(...)]').
C6_SingleUserNormalized ==
    (pc = "compiled" /\ SingleUser(messages) /\ WellFormedMsg(messages[1])) =>
        /\ prompt.err = ""
        /\ prompt.text = Normalized(messages[1].content)

\* C10: compilation is total: for every message list, with content that is a
\* string, absent, or a list of arbitrary blocks, it returns a text and does
\* not fail.
C10_CompilerTotal == pc = "compiled" => prompt.err = ""

----------------------------------------------------------------------------
(* Properties of the extractor (specification SpecParse) *)

WellFormedCall(payload) ==
    json_loads(payload).ok /\ json_loads(payload).val.kind = "object"

\* the stripped payloads of the fences of a text, in order: from each opening
\* fence to the next closing fence, or to the end of the text
RECURSIVE FencePayloads(_)
FencePayloads(text) ==
    IF ~contains(text, s_fence_open) THEN <<>>
    ELSE LET q == partition(partition(text, s_fence_open).after, s_ticks)
         IN <<strip(q.before)>> \o FencePayloads(q.after)

\* the blocks section 4.5 asks for, without their ids, in the order of the
\* text: the trimmed text before each fence when not blank, the fence as a
\* ToolUse when its payload is a JSON object and as its raw text otherwise,
\* and the trimmed text after the last fence when not blank
RECURSIVE OrderedItems(_)
OrderedItems(text) ==
    IF ~contains(text, s_fence_open)
    THEN IF strip(text) # <<>> THEN <<TextBlock(strip(text))>> ELSE <<>>
    ELSE LET p == partition(text, s_fence_open)
             q == partition(p.after, s_ticks)
             payload == strip(q.before)
             before == IF strip(p.before) # <<>> THEN <<TextBlock(strip(p.before))>> ELSE <<>>
             fence ==
                 IF WellFormedCall(payload)
                 THEN ToolUseBlock(0, dict_get(json_loads(payload).val, s_name, JStr(s_unknown)),
                                   dict_get(json_loads(payload).val, s_input, JObj(<<>>)))
                 ELSE TextBlock(s_fence_open \o s_nl \o payload \o s_nl \o s_ticks)
         IN before \o <<fence>> \o OrderedItems(q.after)

WithoutId(b) == [b EXCEPT !.id = 0]

\* C5: for every reply the extractor returns its blocks in the order of
\* occurrence in the text: one trimmed Text block per non-blank text segment
\* before, between and after the fences and one ToolUse block, with the
\* object's name and input, per well-formed fenced JSON object.
C5_BlocksInTextOrder ==
    pc = "extracted" =>
        /\ extracted.err = ""
        /\ LET want == OrderedItems(reply)
           IN IF want = <<>> THEN extracted.blocks = <<TextBlock(reply)>>
              ELSE [i \in 1..Len(extracted.blocks) |-> WithoutId(extracted.blocks[i])] = want

\* C8: for every reply and every fence whose payload is not a well-formed
\* tool-call JSON object the extractor returns normally, with a Text block
\* that carries the payload between its fence markers.
C8_MalformedFenceBecomesText ==
    pc = "extracted" =>
        /\ extracted.err = ""
        /\ \A k \in 1..Len(FencePayloads(reply)) :
              LET payload == FencePayloads(reply)[k]
              IN ~WellFormedCall(payload) =>
                    \E i \in 1..Len(extracted.blocks) :
                        /\ extracted.blocks[i].type = "text"
                        /\ extracted.blocks[i].text =
                              s_fence_open \o s_nl \o payload \o s_nl \o s_ticks

\* what remains of C5 and C8 where the extractor returns: used to see that
\* they fail on the AttributeError alone
ExtractorAgreesWhenItReturns ==
    (pc = "extracted" /\ extracted.err = "") =>
        /\ LET want == OrderedItems(reply)
           IN IF want = <<>> THEN extracted.blocks = <<TextBlock(reply)>>
              ELSE [i \in 1..Len(extracted.blocks) |-> WithoutId(extracted.blocks[i])] = want
        /\ \A k \in 1..Len(FencePayloads(reply)) :
              LET payload == FencePayloads(reply)[k]
              IN ~WellFormedCall(payload) =>
                    \E i \in 1..Len(extracted.blocks) :
                        /\ extracted.blocks[i].type = "text"
                        /\ extracted.blocks[i].text =
                              s_fence_open \o s_nl \o payload \o s_nl \o s_ticks
====
